---- MODULE Spec2Model ----
(***************************************************************************)
(* Model of the invite-tracking reward bot (InviteClaimBot/bot.py).        *)
(*                                                                         *)
(* State: the two JSON files of the durable store, the in-memory invite    *)
(* cache, the platform's live invite list, and the coroutines (command and *)
(* event handlers) with their local variables and the await point they are *)
(* suspended at.  One action is the code a handler runs between two await  *)
(* points; discord.py runs handlers as tasks on one event loop, so code    *)
(* between awaits is atomic and handlers interleave only at awaits.        *)
(***************************************************************************)
EXTENDS Integers, Sequences, FiniteSets, TLC

(* ---------------------------- bounds ----------------------------------- *)
MaxSlots == 2        \* handlers that may be suspended at an await together
MaxAdds == 2         \* accounts added by /addaccount in one behaviour
MaxJoins == 2        \* invite uses recorded by the platform in one behaviour
MaxDeliveries == 3   \* private deliveries in one behaviour

(* ------------------------ the model's universe ------------------------- *)
Guilds == {1}                    \* guild (community) ids, integers as in discord.py
Members == {10, 20}              \* user ids
Accounts == {"X", "Y"}           \* account strings an administrator may add
FirstAccount == "X"              \* the program never looks into an account string:
                                 \* the first one added is called X
Codes == {"A", "B"}              \* invite codes
FirstCode == "A"                 \* the invite that exists before the bot connects
Slots == 1..MaxSlots

\* the guild an invite code is created in and the member who creates it
HomeGuild(code) == 1
InviterOf(code) == IF code = "A" THEN 10 ELSE 20

(* ------------------------- program constants --------------------------- *)
ACCOUNTS_FILE == "data/accounts.json"
INVITES_FILE == "data/invites.json"
temp_file(filename) == filename \o ".tmp"
FileNames == {ACCOUNTS_FILE, INVITES_FILE, temp_file(ACCOUNTS_FILE), temp_file(INVITES_FILE)}

(* str(): ids are integers on the platform and strings as ledger keys *)
str(n) == ToString(n)

(* ------------------------------ files ---------------------------------- *)
\* A file is missing, holds bytes that are not text in the file's encoding
\* ("undecodable"), holds text json.load rejects ("garbage": also the empty file
\* and every proper prefix of a dumped object), holds JSON that is not an object
\* ("nondict"), or holds a JSON object ("dict").
NoFile == [kind |-> "missing", value |-> <<>>]
Undecodable == [kind |-> "undecodable", value |-> <<>>]
Garbage == [kind |-> "garbage", value |-> <<>>]
NonDict == [kind |-> "nondict", value |-> <<>>]

\* json.dump(data, f, indent=4) of a dict whose keys are strings
json_dump(data) == [kind |-> "dict", value |-> data]

EmptyDict == <<>>

\* d[key] = value on a dictionary
put(d, key, value) == (key :> value) @@ d

\* d.get(key, 0)
get0(d, key) == IF key \in DOMAIN d THEN d[key] ELSE 0
AccountsDefault == [accounts |-> <<>>]

VARIABLES
    fs,             \* file name -> file content
    invite_cache,   \* guild id -> (invite code -> uses); a guild may be absent
    guild_invites,  \* platform: guild id -> sequence of live invites, in returned order
    h,              \* slot -> handler coroutine (locals and await point)
    added,          \* ghost: accounts added by /addaccount, in order
    delivered,      \* ghost: accounts sent by private message, in order
    credited,       \* ghost: <<guild, member>> -> credits issued by on_member_join
    claimed         \* ghost: <<guild, member>> -> claims that delivered and committed

vars == <<fs, invite_cache, guild_invites, h, added, delivered, credited, claimed>>

\* faulty variant of is_dict: an empty object is taken for a damaged file
is_dict_nonempty(c) == c.kind = "dict" /\ c.value # <<>>

\* json.load(f) returns, and isinstance(data, dict)
is_dict(c) == c.kind = "dict"

\* json.load(f) or open(filename, 'r') raises one of the two exceptions of the
\* inner except clause: FileNotFoundError, json.JSONDecodeError (also the one
\* raised by hand for data that is not a dict)
heals(c) == c.kind \in {"missing", "garbage", "nondict"} \/ (c.kind = "dict" /\ ~is_dict(c))

\* load_json: returns the data and the file system it leaves; healed = the file
\* was rewritten with the default.  Any other exception of the read (the
\* UnicodeDecodeError of undecodable bytes) reaches the outer except clause,
\* which returns the default and writes nothing.
load_json(files, filename, default) ==
    LET c == files[filename] IN
    IF is_dict(c)
    THEN [data |-> c.value, fs |-> files, healed |-> FALSE]
    ELSE IF heals(c)
    THEN [data |-> default, fs |-> [files EXCEPT ![filename] = json_dump(default)],
          healed |-> TRUE]
    ELSE [data |-> default, fs |-> files, healed |-> FALSE]

\* save_json: fault = the write of the temporary file raises
save_json(files, filename, data, fault) ==
    LET tmp == temp_file(filename)
        written == [files EXCEPT ![tmp] = json_dump(data)]
    IN  IF fault
        THEN [fs |-> [files EXCEPT ![tmp] = NoFile], raised |-> TRUE]
        ELSE [fs |-> [written EXCEPT ![filename] = written[tmp], ![tmp] = NoFile],
              raised |-> FALSE]

load_accounts(files) ==
    LET r == load_json(files, ACCOUNTS_FILE, AccountsDefault)
    IN  [data |-> r.data.accounts, fs |-> r.fs, healed |-> r.healed]

save_accounts(files, accounts, fault) ==
    save_json(files, ACCOUNTS_FILE, [accounts |-> accounts], fault)

load_invites(files) == load_json(files, INVITES_FILE, EmptyDict)

save_invites(files, invites, fault) == save_json(files, INVITES_FILE, invites, fault)

\* faulty variant of init_entry: a new entry starts with one credit
init_entry_one(invites, guild_id, user_id) ==
    LET a == IF guild_id \in DOMAIN invites THEN invites
             ELSE invites @@ (guild_id :> EmptyDict)
    IN  IF user_id \in DOMAIN a[guild_id] THEN a
        ELSE [a EXCEPT ![guild_id] = a[guild_id] @@ (user_id :> 1)]

\* the dictionary updates of initialize_user_invites
init_entry(invites, guild_id, user_id) ==
    LET a == IF guild_id \in DOMAIN invites THEN invites
             ELSE invites @@ (guild_id :> EmptyDict)
    IN  IF user_id \in DOMAIN a[guild_id] THEN a
        ELSE [a EXCEPT ![guild_id] = a[guild_id] @@ (user_id :> 0)]

initialize_user_invites(files, invites, guild_id, user_id, fault) ==
    LET inv == init_entry(invites, guild_id, user_id)
        s == save_invites(files, inv, fault)
    IN  [invites |-> inv, fs |-> s.fs, raised |-> s.raised]

(* ------------------------- persisted views ----------------------------- *)
\* what the next load of each document would return
PoolOf(files) ==
    IF files[ACCOUNTS_FILE].kind = "dict" THEN files[ACCOUNTS_FILE].value.accounts ELSE <<>>

LedgerOf(files) ==
    IF files[INVITES_FILE].kind = "dict" THEN files[INVITES_FILE].value ELSE EmptyDict

HasEntry(ledger, g, u) == str(g) \in DOMAIN ledger /\ str(u) \in DOMAIN ledger[str(g)]
Balance(ledger, g, u) == IF HasEntry(ledger, g, u) THEN ledger[str(g)][str(u)] ELSE 0

(* ----------------------------- handlers -------------------------------- *)
Idle == [kind |-> "none", pc |-> "idle", guild |-> 0, user |-> 0,
         invites |-> EmptyDict, accounts |-> <<>>, outcome |-> "none", reported |-> 0]

Free(i) == h[i].pc \in {"idle", "done"}
NoneInFlight == \A i \in Slots : Free(i)

\* a coroutine that has returned is gone: its record (with its outcome) is kept
\* only until the next step; a new coroutine takes the lowest free slot
Collected == [i \in Slots |-> IF h[i].pc = "done" THEN Idle ELSE h[i]]
Lowest(i) == Free(i) /\ \A j \in 1..(i-1) : ~Free(j)

\* the invites that exist on the platform when the bot connects
OlderInvites(g) ==
    IF HomeGuild(FirstCode) = g
    THEN <<[code |-> FirstCode, uses |-> 0, inviter |-> InviterOf(FirstCode)]>>
    ELSE <<>>

Init ==
    /\ fs = [f \in FileNames |-> NoFile]
    /\ invite_cache = <<>>
    /\ guild_invites = [g \in Guilds |-> OlderInvites(g)]
    /\ h = [i \in Slots |-> Idle]
    /\ added = <<>>
    /\ delivered = <<>>
    /\ credited = [q \in Guilds \X Members |-> 0]
    /\ claimed = [q \in Guilds \X Members |-> 0]

Finish(rec, outcome) ==
    [rec EXCEPT !.pc = "done", !.outcome = outcome, !.invites = EmptyDict, !.accounts = <<>>]

(* ------------------------------ /claim --------------------------------- *)
\* faulty variant of insufficient: if user_invites < 0
insufficient_below_zero(user_invites) == user_invites < 0

\* if user_invites < 1
insufficient(user_invites) == user_invites < 1

\* claim, from its entry to the await of the private message (or to its
\* return when a validation fails)
claim_begin(i, g, u, fault) ==
    LET guild_id == str(g)
        user_id == str(u)
        l == load_invites(fs)
        ini == initialize_user_invites(l.fs, l.data, guild_id, user_id, fault)
        user_invites == ini.invites[guild_id][user_id]
        la == load_accounts(ini.fs)
        rec == [Idle EXCEPT !.kind = "claim", !.guild = g, !.user = u]
    IN  /\ Lowest(i)
        /\ UNCHANGED <<invite_cache, guild_invites, added, delivered, credited, claimed>>
        /\ IF ini.raised
           THEN /\ fs' = ini.fs
                /\ h' = [Collected EXCEPT ![i] = Finish(rec, "error")]
           ELSE IF insufficient(user_invites)
           THEN /\ fs' = ini.fs
                /\ h' = [Collected EXCEPT ![i] = Finish(rec, "insufficient")]
           ELSE IF la.data = <<>>
           THEN /\ fs' = la.fs
                /\ h' = [Collected EXCEPT ![i] = Finish(rec, "empty")]
           ELSE /\ fs' = la.fs
                /\ h' = [Collected EXCEPT ![i] = [rec EXCEPT !.pc = "dm", !.invites = ini.invites,
                                                     !.accounts = la.data]]

ClaimStart(i, g, u) == claim_begin(i, g, u, FALSE)

ClaimStartSaveFails(i, g, u) == claim_begin(i, g, u, TRUE)

\* faulty variant of pop_account: accounts.pop()
pop_last(accounts) ==
    [account |-> accounts[Len(accounts)], rest |-> SubSeq(accounts, 1, Len(accounts) - 1)]

\* the account removed from the local list: accounts.pop(0)
pop_account(accounts) == [account |-> Head(accounts), rest |-> Tail(accounts)]

\* faulty variant of debit: the ledger is read again after the await and debited
debit_reloaded(invites, guild_id, user_id) ==
    LET now == LedgerOf(fs)
        members == IF guild_id \in DOMAIN now THEN now[guild_id] ELSE EmptyDict
    IN  put(now, guild_id, put(members, user_id, get0(members, user_id) - 1))

\* invites[guild_id][user_id] -= 1
debit(invites, guild_id, user_id) == [invites EXCEPT ![guild_id][user_id] = @ - 1]

\* claim, resumed after the private message was sent: the commit
claim_commit(i, poolFault, ledgerFault) ==
    LET rec == h[i]
        guild_id == str(rec.guild)
        user_id == str(rec.user)
        shown == rec.accounts[1]
        p == pop_account(rec.accounts)
        sa == save_accounts(fs, p.rest, poolFault)
        invites2 == debit(rec.invites, guild_id, user_id)
        si == save_invites(sa.fs, invites2, ledgerFault)
    IN  /\ rec.kind = "claim" /\ rec.pc = "dm"
        /\ Len(delivered) < MaxDeliveries
        /\ delivered' = Append(delivered, shown)
        /\ claimed' = IF sa.raised \/ si.raised THEN claimed
                      ELSE [claimed EXCEPT ![<<rec.guild, rec.user>>] = @ + 1]
        /\ UNCHANGED <<invite_cache, guild_invites, added, credited>>
        /\ IF sa.raised
           THEN /\ fs' = sa.fs
                /\ h' = [Collected EXCEPT ![i] = Finish(rec, "error")]
           ELSE IF si.raised
           THEN /\ fs' = si.fs
                /\ h' = [Collected EXCEPT ![i] = Finish(rec, "error")]
           ELSE /\ fs' = si.fs
                /\ h' = [Collected EXCEPT ![i] = [rec EXCEPT !.pc = "audit", !.invites = invites2,
                                                     !.accounts = p.rest]]

ClaimDeliver(i) == claim_commit(i, FALSE, FALSE)

ClaimPoolSaveFails(i) == claim_commit(i, TRUE, FALSE)

ClaimLedgerSaveFails(i) == claim_commit(i, FALSE, TRUE)

\* faulty variant of ClaimDMForbidden: the balance is debited although the
\* private message is refused
ClaimDMForbiddenDebited(i) ==
    /\ h[i].kind = "claim" /\ h[i].pc = "dm"
    /\ fs' = save_invites(fs, debit(h[i].invites, str(h[i].guild), str(h[i].user)), FALSE).fs
    /\ h' = [Collected EXCEPT ![i] = Finish(h[i], "dm_failed")]
    /\ UNCHANGED <<invite_cache, guild_invites, added, delivered, credited, claimed>>

\* the private message is refused: except discord.Forbidden
ClaimDMForbidden(i) ==
    /\ h[i].kind = "claim" /\ h[i].pc = "dm"
    /\ h' = [Collected EXCEPT ![i] = Finish(h[i], "dm_failed")]
    /\ UNCHANGED <<fs, invite_cache, guild_invites, added, delivered, credited, claimed>>

\* the audit notification: no log channel, or the message is sent
ClaimAudit(i) ==
    /\ h[i].kind = "claim" /\ h[i].pc = "audit"
    /\ h' = [Collected EXCEPT ![i] = Finish(h[i], "success")]
    /\ UNCHANGED <<fs, invite_cache, guild_invites, added, delivered, credited, claimed>>

\* faulty variant of ClaimAuditForbidden: the commit is undone, the account put
\* back at the front of the pool and the credit given back
ClaimAuditForbiddenRollback(i) ==
    LET back == [h[i].invites EXCEPT ![str(h[i].guild)][str(h[i].user)] = @ + 1]
        sa == save_accounts(fs, <<delivered[Len(delivered)]>> \o h[i].accounts, FALSE)
    IN  /\ h[i].kind = "claim" /\ h[i].pc = "audit"
        /\ fs' = save_invites(sa.fs, back, FALSE).fs
        /\ h' = [Collected EXCEPT ![i] = Finish(h[i], "dm_failed")]
        /\ UNCHANGED <<invite_cache, guild_invites, added, delivered, credited, claimed>>

\* the audit notification is refused: the same except discord.Forbidden
ClaimAuditForbidden(i) ==
    /\ h[i].kind = "claim" /\ h[i].pc = "audit"
    /\ h' = [Collected EXCEPT ![i] = Finish(h[i], "dm_failed")]
    /\ UNCHANGED <<fs, invite_cache, guild_invites, added, delivered, credited, claimed>>

(* --------------------------- /addaccount ------------------------------- *)
\* faulty variant of append_account: accounts.insert(0, account)
prepend_account(accounts, account) == <<account>> \o accounts

\* accounts.append(account)
append_account(accounts, account) == Append(accounts, account)

add_account_body(account, fault) ==
    LET la == load_accounts(fs)
        accounts == append_account(la.data, account)
        s == save_accounts(la.fs, accounts, fault)
    IN  /\ Len(added) < MaxAdds
        /\ added = <<>> => account = FirstAccount
        /\ fs' = s.fs
        /\ added' = IF s.raised THEN added ELSE Append(added, account)
        /\ h' = Collected
        /\ UNCHANGED <<invite_cache, guild_invites, delivered, credited, claimed>>

add_account(account) == add_account_body(account, FALSE)

AddAccountSaveFails(account) == add_account_body(account, TRUE)

(* ----------------------- /invites, /remaining -------------------------- *)
\* faulty variant of invite_count: the entry's value plus one
invite_count_plus_one(invites, guild_id, user_id) == invites[guild_id][user_id] + 1

\* invite_count = invites[guild_id][user_id]
invite_count(invites, guild_id, user_id) == invites[guild_id][user_id]

\* check_invites runs to its end without suspending; the record of the returned
\* coroutine, with the count it showed, takes a slot when one is free
check_invites_body(g, u, fault) ==
    LET guild_id == str(g)
        user_id == str(u)
        l == load_invites(fs)
        ini == initialize_user_invites(l.fs, l.data, guild_id, user_id, fault)
        rec == [Idle EXCEPT !.kind = "check", !.guild = g, !.user = u]
        shown == IF ini.raised THEN Finish(rec, "error")
                 ELSE [Finish(rec, "ok") EXCEPT
                          !.reported = invite_count(ini.invites, guild_id, user_id)]
    IN  /\ fs' = ini.fs
        /\ h' = [i \in Slots |-> IF Lowest(i) THEN shown ELSE Collected[i]]
        /\ UNCHANGED <<invite_cache, guild_invites, added, delivered, credited, claimed>>

check_invites(g, u) == check_invites_body(g, u, FALSE)

CheckInvitesSaveFails(g, u) == check_invites_body(g, u, TRUE)

remaining ==
    /\ fs' = load_accounts(fs).fs
    /\ h' = Collected
    /\ UNCHANGED <<invite_cache, guild_invites, added, delivered, credited, claimed>>

(* --------------------------- invite cache ------------------------------ *)
\* {invite.code: invite.uses for invite in invites}
snapshot(invs) ==
    [c \in {invs[k].code : k \in 1..Len(invs)} |->
        invs[CHOOSE k \in 1..Len(invs) : invs[k].code = c /\ \A j \in k+1..Len(invs) : invs[j].code # c].uses]

\* one guild of on_ready's loop, and on_guild_join: the fetch succeeds
refresh(g) ==
    /\ invite_cache' = put(invite_cache, g, snapshot(guild_invites[g]))
    /\ h' = Collected
    /\ UNCHANGED <<fs, guild_invites, added, delivered, credited, claimed>>

\* the fetch is refused: except discord.Forbidden, the cache stays as it was
refresh_forbidden(g) ==
    /\ g \in Guilds
    /\ h' = Collected
    /\ UNCHANGED <<fs, invite_cache, guild_invites, added, delivered, credited, claimed>>

TotalUses ==
    LET RECURSIVE sum(_)
        sum(s) == IF s = <<>> THEN 0 ELSE Head(s).uses + sum(Tail(s))
        RECURSIVE all(_)
        all(G) == IF G = {} THEN 0
                  ELSE LET g == CHOOSE x \in G : TRUE IN sum(guild_invites[g]) + all(G \ {g})
    IN  all(Guilds)

LiveCodes(g) == {guild_invites[g][k].code : k \in 1..Len(guild_invites[g])}

\* a member creates an invite on the platform, and on_invite_create runs
on_invite_create(g, code) ==
    LET invite == [code |-> code, uses |-> 0, inviter |-> InviterOf(code)]
        cache1 == IF g \in DOMAIN invite_cache THEN invite_cache
                  ELSE put(invite_cache, g, EmptyDict)
    IN  /\ HomeGuild(code) = g
        /\ code \notin LiveCodes(g)
        /\ guild_invites' = [guild_invites EXCEPT ![g] = Append(@, invite)]
        /\ invite_cache' = put(cache1, g, put(cache1[g], code, invite.uses))
        /\ h' = Collected
        /\ UNCHANGED <<fs, added, delivered, credited, claimed>>

(* ---------------------------- member join ------------------------------ *)
\* a member joins guild g through invite number via of the live list (0: through
\* no invite), and on_member_join runs up to its await of guild.invites()
on_member_join(i, g, via) ==
    LET guild_id == str(g)
        l == load_invites(fs)
        invites == IF guild_id \in DOMAIN l.data THEN l.data
                   ELSE put(l.data, guild_id, EmptyDict)
    IN  /\ Lowest(i)
        /\ via \in 0..Len(guild_invites[g])
        /\ via > 0 => TotalUses < MaxJoins
        /\ guild_invites' = IF via = 0 THEN guild_invites
                            ELSE [guild_invites EXCEPT ![g][via].uses = @ + 1]
        /\ fs' = l.fs
        /\ h' = [Collected EXCEPT ![i] = [Idle EXCEPT !.kind = "join", !.pc = "fetch", !.guild = g,
                                               !.invites = invites]]
        /\ UNCHANGED <<invite_cache, added, delivered, credited, claimed>>

\* faulty variant of first_match: the loop has no break, the last match wins
last_match(new_invites, cache) ==
    LET hits == {k \in 1..Len(new_invites) : new_invites[k].uses > get0(cache, new_invites[k].code)}
    IN  IF hits = {} THEN 0 ELSE CHOOSE k \in hits : \A j \in hits : k >= j

\* faulty variant of first_match: invite.uses >= old_uses
first_match_or_equal(new_invites, cache) ==
    LET hits == {k \in 1..Len(new_invites) : new_invites[k].uses >= get0(cache, new_invites[k].code)}
    IN  IF hits = {} THEN 0 ELSE CHOOSE k \in hits : \A j \in hits : k <= j

\* the first invite, in returned order, whose uses exceed the cached uses; 0 if none
first_match(new_invites, cache) ==
    LET hits == {k \in 1..Len(new_invites) : new_invites[k].uses > get0(cache, new_invites[k].code)}
    IN  IF hits = {} THEN 0 ELSE CHOOSE k \in hits : \A j \in hits : k <= j

\* faulty variant of credit: += 2
credit_twice(invites, guild_id, inviter_id) ==
    [invites EXCEPT ![guild_id] = put(@, inviter_id, get0(@, inviter_id) + 2)]

\* invites[guild_id][inviter_id] += 1, the entry created at 0 when absent
credit(invites, guild_id, inviter_id) ==
    [invites EXCEPT ![guild_id] = put(@, inviter_id, get0(@, inviter_id) + 1)]

\* on_member_join resumed with the live invites: the loop and save_invites
join_resume(i, fault) ==
    LET rec == h[i]
        g == rec.guild
        guild_id == str(g)
        new_invites == guild_invites[g]
        k == first_match(new_invites, invite_cache[g])
        invite == new_invites[k]
        invites2 == IF k = 0 THEN rec.invites
                    ELSE credit(rec.invites, guild_id, str(invite.inviter))
        s == save_invites(fs, invites2, fault)
    IN  /\ rec.kind = "join" /\ rec.pc = "fetch"
        /\ g \in DOMAIN invite_cache \/ new_invites = <<>>
        /\ invite_cache' = IF new_invites = <<>> \/ k = 0 THEN invite_cache
                           ELSE put(invite_cache, g, put(invite_cache[g], invite.code, invite.uses))
        /\ fs' = s.fs
        /\ h' = [Collected EXCEPT ![i] = Finish(rec, IF s.raised THEN "raised" ELSE "ok")]
        /\ credited' = IF new_invites = <<>> \/ k = 0 \/ s.raised THEN credited
                       ELSE [credited EXCEPT ![<<g, invite.inviter>>] = @ + 1]
        /\ UNCHANGED <<guild_invites, added, delivered, claimed>>

JoinFetched(i) == join_resume(i, FALSE)

JoinSaveFails(i) == join_resume(i, TRUE)

\* invite_cache[member.guild.id] raises KeyError on the first invite of the loop
JoinCacheMissing(i) ==
    /\ h[i].kind = "join" /\ h[i].pc = "fetch"
    /\ h[i].guild \notin DOMAIN invite_cache
    /\ guild_invites[h[i].guild] # <<>>
    /\ h' = [Collected EXCEPT ![i] = Finish(h[i], "raised")]
    /\ UNCHANGED <<fs, invite_cache, guild_invites, added, delivered, credited, claimed>>

\* guild.invites() is refused: except discord.Forbidden
JoinForbidden(i) ==
    /\ h[i].kind = "join" /\ h[i].pc = "fetch"
    /\ h' = [Collected EXCEPT ![i] = Finish(h[i], "forbidden")]
    /\ UNCHANGED <<fs, invite_cache, guild_invites, added, delivered, credited, claimed>>

(* ----------------------- the store, step by step ----------------------- *)
\* One call of save_json or load_json by a caller of the store, save_json taken
\* one system call at a time so that the process can die between two of them.
\* The call in progress is the coroutine of slot 1.
PoolDoc == [accounts |-> <<"X">>]
LedgerDoc == put(EmptyDict, "1", put(EmptyDict, "10", 1))
Defaults == {EmptyDict, AccountsDefault}
Docs == Defaults \cup {PoolDoc, LedgerDoc}
StoreFiles == {ACCOUNTS_FILE, INVITES_FILE}
Damage == {NoFile, Undecodable, Garbage, NonDict}

\* data: the document to save, or the default of a load; old: the target file
\* when the call began; result: what load_json returned
StoreCall(kind, pc, filename, data, old) ==
    [kind |-> kind, pc |-> pc, filename |-> filename, data |-> data, old |-> old,
     outcome |-> "none", result |-> EmptyDict, healed |-> FALSE]

\* save_json is called with a dict: the isinstance check passes
save_begin(filename, data) ==
    /\ NoneInFlight
    /\ h' = [Collected EXCEPT ![1] = StoreCall("save", "open", filename, data, fs[filename])]
    /\ UNCHANGED <<fs, invite_cache, guild_invites, added, delivered, credited, claimed>>

\* faulty variant of save_open: the target itself is opened for writing
save_open_target ==
    /\ h[1].kind = "save" /\ h[1].pc = "open"
    /\ fs' = [fs EXCEPT ![h[1].filename] = Garbage]
    /\ h' = [h EXCEPT ![1].pc = "dump"]
    /\ UNCHANGED <<invite_cache, guild_invites, added, delivered, credited, claimed>>

\* open(temp_file, 'w'): the temporary file exists and is empty
save_open ==
    /\ h[1].kind = "save" /\ h[1].pc = "open"
    /\ fs' = [fs EXCEPT ![temp_file(h[1].filename)] = Garbage]
    /\ h' = [h EXCEPT ![1].pc = "dump"]
    /\ UNCHANGED <<invite_cache, guild_invites, added, delivered, credited, claimed>>

\* json.dump(data, f, indent=4) and the end of the with block
save_dump ==
    /\ h[1].kind = "save" /\ h[1].pc = "dump"
    /\ fs' = [fs EXCEPT ![temp_file(h[1].filename)] = json_dump(h[1].data)]
    /\ h' = [h EXCEPT ![1].pc = "replace"]
    /\ UNCHANGED <<invite_cache, guild_invites, added, delivered, credited, claimed>>

\* os.replace(temp_file, filename), and save_json returns
save_replace ==
    LET tmp == temp_file(h[1].filename) IN
    /\ h[1].kind = "save" /\ h[1].pc = "replace"
    /\ fs' = [fs EXCEPT ![h[1].filename] = fs[tmp], ![tmp] = NoFile]
    /\ h' = [h EXCEPT ![1].pc = "done", ![1].outcome = "ok"]
    /\ UNCHANGED <<invite_cache, guild_invites, added, delivered, credited, claimed>>

\* makedirs, open, json.dump or os.replace raises: the except clause removes the
\* temporary file if it exists and raises again
save_raises ==
    /\ h[1].kind = "save" /\ h[1].pc \in {"open", "dump", "replace"}
    /\ fs' = [fs EXCEPT ![temp_file(h[1].filename)] = NoFile]
    /\ h' = [h EXCEPT ![1].pc = "done", ![1].outcome = "raised"]
    /\ UNCHANGED <<invite_cache, guild_invites, added, delivered, credited, claimed>>

\* the process dies inside save_json and is started again: the files stay as
\* they are, the call is gone
crash ==
    /\ h[1].kind = "save" /\ h[1].pc \in {"open", "dump", "replace"}
    /\ h' = [h EXCEPT ![1].pc = "done", ![1].outcome = "crashed"]
    /\ UNCHANGED <<fs, invite_cache, guild_invites, added, delivered, credited, claimed>>

\* load_json(filename, default)
load_call(filename, default) ==
    LET r == load_json(fs, filename, default) IN
    /\ NoneInFlight
    /\ fs' = r.fs
    /\ h' = [Collected EXCEPT ![1] = [StoreCall("load", "done", filename, default, fs[filename])
                                        EXCEPT !.outcome = "ok", !.result = r.data,
                                               !.healed = r.healed]]
    /\ UNCHANGED <<invite_cache, guild_invites, added, delivered, credited, claimed>>

\* the file is removed or damaged from outside the program
damage(filename, content) ==
    /\ NoneInFlight
    /\ fs' = [fs EXCEPT ![filename] = content]
    /\ h' = Collected
    /\ UNCHANGED <<invite_cache, guild_invites, added, delivered, credited, claimed>>

(* -------------------------- specifications ----------------------------- *)
\* steps that resume a suspended handler
Resume ==
    \E i \in Slots :
        \/ ClaimDeliver(i)
        \/ ClaimDMForbidden(i)
        \/ ClaimAudit(i)
        \/ ClaimAuditForbidden(i)
        \/ JoinFetched(i)
        \/ JoinCacheMissing(i)
        \/ JoinForbidden(i)

\* steps that dispatch an event or a command
Dispatch ==
    \/ \E i \in Slots, g \in Guilds, u \in Members : ClaimStart(i, g, u)
    \/ \E i \in Slots, g \in Guilds, via \in 0..Cardinality(Codes) : on_member_join(i, g, via)
    \/ \E g \in Guilds, u \in Members : check_invites(g, u)
    \/ \E account \in Accounts : add_account(account)
    \/ remaining
    \/ \E g \in Guilds : refresh(g)
    \/ \E g \in Guilds : refresh_forbidden(g)
    \/ \E g \in Guilds, code \in Codes : on_invite_create(g, code)

\* Spec: handlers interleave at their awaits; every store write succeeds
Next == Dispatch \/ Resume

Spec == Init /\ [][Next]_vars

\* SpecSeq: one handler at a time (nothing is dispatched while a handler is
\* suspended); every store write succeeds
NextSeq == (NoneInFlight /\ Dispatch) \/ Resume

SpecSeq == Init /\ [][NextSeq]_vars

\* SpecFault: one handler at a time; a store write (save_json) may raise
DispatchFaults ==
    \/ \E i \in Slots, g \in Guilds, u \in Members : ClaimStartSaveFails(i, g, u)
    \/ \E g \in Guilds, u \in Members : CheckInvitesSaveFails(g, u)
    \/ \E account \in Accounts : AddAccountSaveFails(account)

ResumeFaults ==
    \E i \in Slots :
        \/ ClaimPoolSaveFails(i)
        \/ ClaimLedgerSaveFails(i)
        \/ JoinSaveFails(i)

NextFault == (NoneInFlight /\ (Dispatch \/ DispatchFaults)) \/ Resume \/ ResumeFaults

SpecFault == Init /\ [][NextFault]_vars

\* SpecStore: the callers of the store, one call at a time; save_json may raise
\* or the process may die at each of its steps, and files may be damaged between
\* two calls
NextStore ==
    \/ \E filename \in StoreFiles, data \in Docs : save_begin(filename, data)
    \/ save_open
    \/ save_dump
    \/ save_replace
    \/ save_raises
    \/ crash
    \/ \E filename \in StoreFiles, default \in Defaults : load_call(filename, default)
    \/ \E filename \in StoreFiles, content \in Damage : damage(filename, content)

SpecStore == Init /\ [][NextStore]_vars

(* ======================================================================= *)
(* Properties.  The contract of one operation is stated for handlers that  *)
(* run one at a time (SpecSeq): the store "before the attempt" is then the *)
(* store before the handler's first step, and no other handler touches it  *)
(* until the handler returns.  Store writes that raise are in SpecFault.   *)
(* ======================================================================= *)
Pool == PoolOf(fs)
Ledger == LedgerOf(fs)
Pairs == Guilds \X Members

\* the steps of the claim coroutine in slot i
ClaimBegins(i) == Free(i) /\ h'[i].kind = "claim"
ClaimPassesValidation(i) == ClaimBegins(i) /\ h'[i].pc = "dm"
ClaimResumesAtDM(i) == h[i].kind = "claim" /\ h[i].pc = "dm" /\ h'[i] # h[i]
ClaimCommits(i) == ClaimResumesAtDM(i) /\ h'[i].pc = "audit"
ClaimRefused(i) == ClaimResumesAtDM(i) /\ h'[i].pc = "done" /\ delivered' = delivered

\* every balance other than (g, u)'s is what it was, entry for entry
OthersKept(g, u) ==
    \A q \in Pairs :
        q # <<g, u>> =>
            /\ HasEntry(LedgerOf(fs'), q[1], q[2]) = HasEntry(Ledger, q[1], q[2])
            /\ Balance(LedgerOf(fs'), q[1], q[2]) = Balance(Ledger, q[1], q[2])

StoreKept == PoolOf(fs') = Pool /\ LedgerOf(fs') = Ledger

\* C1: a claim by a member with balance >= 1, on a non-empty pool, whose private
\* message is sent and whose saves succeed, delivers the pool's first account,
\* leaves the pool without its first element only, and takes exactly 1 from that
\* member's balance in that guild; no other balance changes.  (Passing the two
\* validations leaves the store as it was, so the store at the commit is the store
\* before the attempt.)
C1_ClaimSuccess ==
    [][\A i \in Slots :
          /\ ClaimPassesValidation(i) => StoreKept
          /\ (/\ ClaimCommits(i)
              /\ Balance(Ledger, h[i].guild, h[i].user) >= 1
              /\ Pool # <<>>)
             => /\ delivered' = Append(delivered, Head(Pool))
                /\ PoolOf(fs') = Tail(Pool)
                /\ HasEntry(LedgerOf(fs'), h[i].guild, h[i].user)
                /\ Balance(LedgerOf(fs'), h[i].guild, h[i].user)
                      = Balance(Ledger, h[i].guild, h[i].user) - 1
                /\ OthersKept(h[i].guild, h[i].user)]_vars

\* a claim has committed on the pool [X, Y]: X was delivered, the pool is [Y]
C1_Witness ==
    \E i \in Slots :
        /\ h[i].kind = "claim" /\ h[i].pc = "audit"
        /\ added = <<"X", "Y">> /\ delivered = <<"X">> /\ Pool = <<"Y">>
        /\ Balance(Ledger, h[i].guild, h[i].user) = 0

\* C2: when a claim passes both validations and the private message is refused,
\* the persisted pool and every persisted balance are what they were before the
\* attempt, and the pool's first element is still the same account.
C2_DeliveryRefused ==
    [][\A i \in Slots :
          /\ ClaimPassesValidation(i)
             => /\ StoreKept
                /\ Balance(Ledger, h'[i].guild, h'[i].user) >= 1
                /\ Pool # <<>>
                /\ h'[i].accounts[1] = Head(Pool)
          /\ ClaimRefused(i)
             => /\ StoreKept
                /\ Pool # <<>>
                /\ Head(PoolOf(fs')) = h[i].accounts[1]]_vars

\* a claim that passed validation was refused its private message
C2_Witness ==
    \E i \in Slots :
        /\ h[i].kind = "claim" /\ h[i].pc = "done" /\ h[i].outcome = "dm_failed"
        /\ Pool # <<>>
        /\ Balance(Ledger, h[i].guild, h[i].user) >= 1
        /\ Len(delivered) = 0

\* C3: a claim whose requester has a balance < 1 (0 when the entry is absent), or
\* that finds the pool empty, returns without attempting a delivery, leaves the
\* pool and every balance value unchanged, and changes the ledger at most by
\* creating the requester's entry at 0.
C3_ValidationFails ==
    [][\A i \in Slots :
          (/\ ClaimBegins(i)
           /\ \/ Balance(Ledger, h'[i].guild, h'[i].user) < 1
              \/ Pool = <<>>)
          => /\ h'[i].pc = "done"
             /\ h'[i].outcome \in {"insufficient", "empty"}
             /\ delivered' = delivered
             /\ PoolOf(fs') = Pool
             /\ OthersKept(h'[i].guild, h'[i].user)
             /\ Balance(LedgerOf(fs'), h'[i].guild, h'[i].user)
                   = Balance(Ledger, h'[i].guild, h'[i].user)
             /\ HasEntry(Ledger, h'[i].guild, h'[i].user)
                   => HasEntry(LedgerOf(fs'), h'[i].guild, h'[i].user)]_vars

\* a member with no entry claimed on a non-empty pool: the entry exists at 0
C3_Witness ==
    \E i \in Slots :
        /\ h[i].kind = "claim" /\ h[i].pc = "done" /\ h[i].outcome = "insufficient"
        /\ Pool # <<>>
        /\ HasEntry(Ledger, h[i].guild, h[i].user)
        /\ Balance(Ledger, h[i].guild, h[i].user) = 0

\* a step of the claim coroutine in slot i
ClaimStep(i) ==
    \/ ClaimBegins(i)
    \/ h[i].kind = "claim" /\ h[i].pc \in {"dm", "audit"} /\ h'[i] # h[i]

\* the guild and the member of the claim coroutine that takes the step
Requester(i) == IF ClaimBegins(i) THEN <<h'[i].guild, h'[i].user>> ELSE <<h[i].guild, h[i].user>>

Debited(i) ==
    Balance(LedgerOf(fs'), Requester(i)[1], Requester(i)[2])
        = Balance(Ledger, Requester(i)[1], Requester(i)[2]) - 1

Removed == Pool # <<>> /\ PoolOf(fs') = Tail(Pool)

\* C4: in every claim attempt, also one in which a store write raises, the
\* requester's balance is debited by 1 exactly when the private message was sent.
C4_DebitIffDelivered ==
    [][\A i \in Slots : ClaimStep(i) => (Debited(i) <=> delivered' # delivered)]_vars

\* C5: in every claim attempt, also one in which a store write raises, the
\* account is removed from the persisted pool exactly when the balance is debited.
C5_PoolAndLedgerTogether ==
    [][\A i \in Slots : ClaimStep(i) => (Removed <=> Debited(i))]_vars

\* the steps of the on_member_join coroutine in slot i
JoinBegins(i) == Free(i) /\ h'[i].kind = "join"
JoinResumes(i) == h[i].kind = "join" /\ h[i].pc = "fetch" /\ h'[i] # h[i]
JoinFetches(i) == JoinResumes(i) /\ h'[i].outcome # "forbidden"

\* the live invites of g whose uses exceed the cached uses (an absent entry is 0)
Changed(g) ==
    {k \in 1..Len(guild_invites[g]) :
        guild_invites[g][k].uses > get0(invite_cache[g], guild_invites[g][k].code)}

BalancesKept ==
    \A q \in Pairs :
        /\ HasEntry(LedgerOf(fs'), q[1], q[2]) = HasEntry(Ledger, q[1], q[2])
        /\ Balance(LedgerOf(fs'), q[1], q[2]) = Balance(Ledger, q[1], q[2])

C8_BalanceNonNegative ==
    \A gk \in DOMAIN Ledger : \A uk \in DOMAIN Ledger[gk] : Ledger[gk][uk] \in Nat

\* two claims of one member who had 1 credit were both suspended at the private
\* message and both committed: the balance is 0
C8_Witness ==
    \E i, j \in Slots :
        /\ i # j
        /\ h[i].kind = "claim" /\ h[j].kind = "claim"
        /\ h[i].pc = "audit" /\ h[j].pc = "audit"
        /\ h[i].guild = h[j].guild /\ h[i].user = h[j].user
        /\ TotalUses = 1
        /\ HasEntry(Ledger, h[i].guild, h[i].user)
        /\ Balance(Ledger, h[i].guild, h[i].user) = 0

Count(seq, a) == Cardinality({k \in 1..Len(seq) : seq[k] = a})

\* C9: accounts are single-use: no account is delivered more often than it was
\* added, in every interleaving of the handlers.
C9_SingleUse == \A a \in Accounts : Count(delivered, a) <= Count(added, a)

IsPrefix(s, t) == Len(s) <= Len(t) /\ SubSeq(t, 1, Len(s)) = s

\* C10: when add-account and claim run one at a time, the accounts delivered, in
\* order, are a prefix of the accounts added, in order.
C10_Fifo == IsPrefix(delivered, added)

\* two different accounts were added and both were delivered, in that order
C10_Witness ==
    /\ Len(added) = 2 /\ added[1] # added[2]
    /\ delivered = added
    /\ Pool = <<>>

C12_SaveAtomic ==
    [][(h[1].kind = "save" /\ h[1].pc # "done")
       => LET filename == h[1].filename IN
          /\ fs'[filename] \in {h[1].old, json_dump(h[1].data)}
          /\ h'[1].outcome = "ok"
                => /\ fs'[filename] = json_dump(h[1].data)
                   /\ fs' = save_json(fs, filename, h[1].data, FALSE).fs
          /\ h'[1].outcome = "raised"
                => /\ fs'[filename] = h[1].old
                   /\ fs'[temp_file(filename)] = NoFile
                   /\ fs' = save_json(fs, filename, h[1].data, TRUE).fs
          /\ h'[1].outcome = "crashed" => fs' = fs]_vars

\* a save of the ledger document over the empty ledger raised: the target is
\* still the empty ledger and there is no temporary file
C12_Witness ==
    /\ h[1].kind = "save" /\ h[1].outcome = "raised"
    /\ h[1].filename = INVITES_FILE /\ h[1].data = LedgerDoc
    /\ h[1].old = json_dump(EmptyDict)
    /\ fs[INVITES_FILE] = json_dump(EmptyDict)
    /\ fs[temp_file(INVITES_FILE)] = NoFile

\* C13: a load_json of a file that is missing or does not hold a JSON object
\* returns the default and leaves the file holding the default: the same load
\* again returns the default by reading the file, healing nothing.
C13_LoadHeals ==
    (h[1].kind = "load" /\ h[1].old.kind # "dict")
    => LET again == load_json(fs, h[1].filename, h[1].data) IN
       /\ h[1].result = h[1].data
       /\ fs[h[1].filename] = json_dump(h[1].data)
       /\ again.data = h[1].data
       /\ ~again.healed
       /\ again.fs = fs

(* --------------------------- /invites twice ---------------------------- *)
\* check_invites has just returned in slot i, having shown a count
CheckShown(i) == h'[i].kind = "check" /\ h'[i].outcome = "ok"

\* C14: a balance check shows the requester's persisted balance and changes no
\* balance value (it may create the requester's entry at 0); a second check by
\* the same member in the same guild right after the first shows the same count
\* and leaves the persisted ledger as the first left it.
C14_CheckIdempotent ==
    [][\A i \in Slots :
          CheckShown(i)
          => LET g == h'[i].guild
                 u == h'[i].user
             IN  /\ h'[i].reported = Balance(LedgerOf(fs'), g, u)
                 /\ HasEntry(LedgerOf(fs'), g, u)
                 /\ Balance(LedgerOf(fs'), g, u) = Balance(Ledger, g, u)
                 /\ OthersKept(g, u)
                 /\ PoolOf(fs') = Pool
                 /\ (h[i].kind = "check" /\ h[i].outcome = "ok" /\ h[i].guild = g /\ h[i].user = u)
                       => /\ h'[i].reported = h[i].reported
                          /\ LedgerOf(fs') = Ledger]_vars

\* a member whose invite was used once has checked: the count shown is 1
C14_Witness ==
    \E i \in Slots :
        /\ h[i].kind = "check" /\ h[i].outcome = "ok"
        /\ h[i].reported = 1
        /\ Balance(Ledger, h[i].guild, h[i].user) = 1

(* ---------------------- refusals by the platform ----------------------- *)
\* C15: a member join in a guild that has no cache (its refresh was refused or
\* never ran), whose fetch of the live invites succeeds, returns without raising.
C15_JoinToleratesMissingCache ==
    [][\A i \in Slots :
          (JoinFetches(i) /\ h[i].guild \notin DOMAIN invite_cache)
          => h'[i].outcome = "ok"]_vars

\* the claim in slot i ends by telling the member that the private message
\* could not be sent
ClaimDenied(i) ==
    /\ h[i].kind = "claim" /\ h[i].pc \in {"dm", "audit"}
    /\ h'[i].pc = "done" /\ h'[i].outcome = "dm_failed"

\* C16: a claim that ends with the "couldn't send you the account" outcome has
\* written nothing: it ends before its commit (the only step of a claim that
\* changes the pool or a balance, see C1 and C2), so the persisted pool and
\* ledger are what they were before the attempt.
C16_DeniedLeavesStore ==
    [][\A i \in Slots : ClaimDenied(i) => (h[i].pc = "dm" /\ StoreKept)]_vars

\* the claim in slot i, suspended at the audit notification, is resumed
ClaimAuditEnds(i) == h[i].kind = "claim" /\ h[i].pc = "audit" /\ h'[i] # h[i]

\* C17: the commit of a claim removes the delivered account from the persisted
\* pool and takes 1 from the requester's balance, and the audit notification
\* that follows, sent, refused or without a channel, writes nothing: the pool
\* and the ledger stay as the commit left them.
C17_AuditKeepsCommit ==
    [][\A i \in Slots :
          /\ ClaimCommits(i)
             => /\ PoolOf(fs') = Tail(Pool)
                /\ PoolOf(fs') = h'[i].accounts
                /\ LedgerOf(fs') = h'[i].invites
                /\ Balance(LedgerOf(fs'), h[i].guild, h[i].user)
                      = Balance(Ledger, h[i].guild, h[i].user) - 1
          /\ ClaimAuditEnds(i)
             => /\ h'[i].pc = "done"
                /\ StoreKept
                /\ Pool = h[i].accounts
                /\ Ledger = h[i].invites
                /\ delivered' = delivered]_vars

\* the only account was delivered to a member with one credit and the audit
\* notification was refused: the pool is empty and the balance is 0
C17_Witness ==
    \E i \in Slots :
        /\ h[i].kind = "claim" /\ h[i].pc = "done" /\ h[i].outcome = "dm_failed"
        /\ added = <<"X">> /\ delivered = <<"X">> /\ Pool = <<>>
        /\ TotalUses = 1
        /\ Balance(Ledger, h[i].guild, h[i].user) = 0

(* ------------------------ one credit per join -------------------------- *)
\* the sum of all balances of a ledger
TotalBalance(ledger) ==
    LET RECURSIVE sum(_)
        sum(Q) == IF Q = {} THEN 0
                  ELSE LET q == CHOOSE x \in Q : TRUE
                       IN  Balance(ledger, q[1], q[2]) + sum(Q \ {q})
    IN  sum(Pairs)

\* C18: a member join raises the sum of all balances by at most 1; when one or
\* more invites have live uses above their cached uses (in a guild that has a
\* cache), the inviter of the first of them in returned order gains exactly 1,
\* the cache entry of that invite becomes its live count, and every other
\* balance and cache entry, those of the later changed invites included, is
\* what it was.
C18_FirstMatchOnly ==
    [][\A i \in Slots :
          /\ JoinBegins(i) => BalancesKept
          /\ JoinResumes(i) => TotalBalance(LedgerOf(fs')) <= TotalBalance(Ledger) + 1
          /\ (/\ JoinFetches(i)
              /\ h[i].guild \in DOMAIN invite_cache
              /\ Changed(h[i].guild) # {})
             => LET g == h[i].guild
                    first == CHOOSE k \in Changed(g) : \A j \in Changed(g) : k <= j
                    invite == guild_invites[g][first]
                IN  /\ Balance(LedgerOf(fs'), g, invite.inviter)
                          = Balance(Ledger, g, invite.inviter) + 1
                    /\ OthersKept(g, invite.inviter)
                    /\ TotalBalance(LedgerOf(fs')) = TotalBalance(Ledger) + 1
                    /\ invite_cache'[g][invite.code] = invite.uses
                    /\ \A j \in 1..Len(guild_invites[g]) :
                          j # first
                          => get0(invite_cache'[g], guild_invites[g][j].code)
                                = get0(invite_cache[g], guild_invites[g][j].code)]_vars

\* A and B were both used once since the cache was taken and a join was then
\* reconciled: A's inviter has the only credit, the cache has A at 1 and B at 0
C18_Witness ==
    \E i \in Slots :
        /\ h[i].kind = "join" /\ h[i].pc = "done" /\ h[i].outcome = "ok"
        /\ h[i].guild \in DOMAIN invite_cache
        /\ Len(guild_invites[h[i].guild]) = 2
        /\ \A k \in 1..2 : guild_invites[h[i].guild][k].uses = 1
        /\ get0(invite_cache[h[i].guild], "A") = 1
        /\ get0(invite_cache[h[i].guild], "B") = 0
        /\ Balance(Ledger, h[i].guild, InviterOf("A")) = 1
        /\ Balance(Ledger, h[i].guild, InviterOf("B")) = 0

(* ----------------------- handlers interleaving ------------------------- *)
\* C19: an added account stays in the persisted pool until it is delivered, in
\* every interleaving of add_account and claim: the pool holds each account at
\* least as often as it was added and not yet delivered.
C19_AddedNeverLost ==
    \A a \in Accounts : Count(Pool, a) >= Count(added, a) - Count(delivered, a)

\* C20: when no handler is suspended, every member's persisted balance in a
\* guild is the credits issued to the member by on_member_join minus the
\* member's claims that delivered and committed (every balance starts at 0), in
\* every interleaving of on_member_join and claim.
C20_NoLostUpdate ==
    NoneInFlight
    => \A q \in Pairs : Balance(Ledger, q[1], q[2]) = credited[q] - claimed[q]

====
